---- MODULE Spec2Model ----
(***************************************************************************)
(* A model of download_gsc_data.py: SearchConsoleAPI (authentication and   *)
(* execute_request), save_daily_csvs and main.                             *)
(*                                                                         *)
(* Strings whose characters matter (date values, which are parsed,         *)
(* re-formatted and sorted) are sequences of one-character strings.  Other *)
(* strings (dimension names, report names, paths) are TLA+ strings.        *)
(***************************************************************************)
EXTENDS Integers, Sequences, FiniteSets, TLC

VARIABLES
    pc,              \* position of main / of the call under test
    args,            \* the parsed command line (argparse namespace)
    service,         \* SearchConsoleAPI.service
    idx,             \* position of main's for loop in reports_to_run
    reports_to_run,  \* main's dict of report definitions
    requests,        \* the request bodies sent to searchanalytics().query
    dirs,            \* file system: the directories that exist
    files,           \* file system: path -> content of the files that exist
    last,            \* what the last step did (arguments and results)
    raised           \* TRUE when an exception escaped to the caller

vars == <<pc, args, service, idx, reports_to_run, requests, dirs, files,
          last, raised>>

-----------------------------------------------------------------------------
(* Characters and strings *)

Digits == <<"0", "1", "2", "3", "4", "5", "6", "7", "8", "9">>

IsDigit(c) == \E i \in 1..10 : Digits[i] = c

DigitVal(c) == (CHOOSE i \in 1..10 : Digits[i] = c) - 1

\* The characters of the modelled strings in code-point order (str.__lt__).
Alphabet == <<" ", "-", "0", "1", "2", "3", "4", "5", "6", "7", "8", "9",
              "a", "b", "d">>

Ord(c) == CHOOSE i \in 1..Len(Alphabet) : Alphabet[i] = c

\* Python's str < str: lexicographic by code point, a proper prefix is smaller.
RECURSIVE StrLess(_, _)
StrLess(s, t) ==
    IF t = <<>> THEN FALSE
    ELSE IF s = <<>> THEN TRUE
    ELSE IF Ord(Head(s)) # Ord(Head(t)) THEN Ord(Head(s)) < Ord(Head(t))
    ELSE StrLess(Tail(s), Tail(t))

\* Python's None in a DataFrame cell; no string of characters equals it.
None == <<"<None>">>

-----------------------------------------------------------------------------
(* datetime.datetime.strptime(date_str, '%Y-%m-%d').date() and            *)
(* date_obj.strftime('%Y-%m-%d')                                           *)

\* %m matches 1[0-2] | 0[1-9] | [1-9]
MonthTok(t) ==
    \/ Len(t) = 2 /\ t[1] = "1" /\ t[2] \in {"0", "1", "2"}
    \/ Len(t) = 2 /\ t[1] = "0" /\ IsDigit(t[2]) /\ t[2] # "0"
    \/ Len(t) = 1 /\ IsDigit(t[1]) /\ t[1] # "0"

\* %d matches 3[01] | [12]\d | 0[1-9] | [1-9] | ' '[1-9]
DayTok(t) ==
    \/ Len(t) = 2 /\ t[1] = "3" /\ t[2] \in {"0", "1"}
    \/ Len(t) = 2 /\ t[1] \in {"1", "2"} /\ IsDigit(t[2])
    \/ Len(t) = 2 /\ t[1] = "0" /\ IsDigit(t[2]) /\ t[2] # "0"
    \/ Len(t) = 1 /\ IsDigit(t[1]) /\ t[1] # "0"
    \/ Len(t) = 2 /\ t[1] = " " /\ IsDigit(t[2]) /\ t[2] # "0"

\* int() of a matched token (a leading space is skipped)
RECURSIVE TokVal(_)
TokVal(t) ==
    IF t = <<>> THEN 0
    ELSE IF t[Len(t)] = " " THEN 0
    ELSE 10 * TokVal(SubSeq(t, 1, Len(t) - 1)) + DigitVal(t[Len(t)])

IsLeap(y) == (y % 4 = 0) /\ ((y % 100 # 0) \/ (y % 400 = 0))

DaysInMonth(y, m) ==
    IF m = 2 THEN (IF IsLeap(y) THEN 29 ELSE 28)
    ELSE IF m \in {4, 6, 9, 11} THEN 30 ELSE 31

\* The ways the whole string matches (\d\d\d\d)-(%m)-(%d): the token lengths.
DateSplits(s) ==
    { lm \in {<<1, 1>>, <<1, 2>>, <<2, 1>>, <<2, 2>>} :
        /\ Len(s) = 6 + lm[1] + lm[2]
        /\ \A i \in 1..4 : IsDigit(s[i])
        /\ s[5] = "-"
        /\ MonthTok(SubSeq(s, 6, 5 + lm[1]))
        /\ s[6 + lm[1]] = "-"
        /\ DayTok(SubSeq(s, 7 + lm[1], Len(s))) }

\* strptime: [ok |-> FALSE] stands for ValueError (no match, unconverted data,
\* or a day/year out of range for the date constructor).
Strptime(s) ==
    IF DateSplits(s) = {} THEN [ok |-> FALSE]
    ELSE LET lm == CHOOSE x \in DateSplits(s) : TRUE
             y == TokVal(SubSeq(s, 1, 4))
             m == TokVal(SubSeq(s, 6, 5 + lm[1]))
             d == TokVal(SubSeq(s, 7 + lm[1], Len(s)))
         IN  IF y >= 1 /\ d <= DaysInMonth(y, m)
             THEN [ok |-> TRUE, year |-> y, month |-> m, day |-> d]
             ELSE [ok |-> FALSE]

\* n as w zero-padded decimal digits
RECURSIVE Pad(_, _)
Pad(n, w) == IF w = 0 THEN <<>> ELSE Append(Pad(n \div 10, w - 1), Digits[(n % 10) + 1])

\* strftime('%Y-%m-%d') for the years the model uses (>= 1000)
Strftime(date) == Pad(date.year, 4) \o <<"-">> \o Pad(date.month, 2) \o <<"-">> \o Pad(date.day, 2)

-----------------------------------------------------------------------------
(* pandas.DataFrame, as far as the program uses it.  A frame is its column *)
(* labels in order and its rows; a row maps each column label to a cell.   *)

\* pd.DataFrame()
EmptyDataFrame == [columns |-> <<>>, rows |-> <<>>]

\* a main that does not look at df.empty
IsEmptyNever(df) == FALSE

\* df.empty: some axis has length 0
IsEmpty(df) == Len(df.columns) = 0 \/ Len(df.rows) = 0

SeqToSet(s) == {s[i] : i \in 1..Len(s)}

\* pd.DataFrame(response['rows']): one row per dict, the columns are the
\* dicts' keys in their order of appearance (`fields`).
DataFrameFromRecords(fields, recs) ==
    IF recs = <<>> THEN EmptyDataFrame ELSE [columns |-> fields, rows |-> recs]

Max(S) == CHOOSE x \in S : \A y \in S : y <= x

\* pd.DataFrame(df['keys'].tolist(), index=df.index): as many columns as the
\* longest key list, shorter lists padded with None.
KeysFrameWidth(df) == Max({Len(df.rows[i]["keys"]) : i \in 1..Len(df.rows)})

KeysFrame(df) ==
    [i \in 1..Len(df.rows) |->
        [j \in 1..KeysFrameWidth(df) |->
            IF j <= Len(df.rows[i]["keys"]) THEN df.rows[i]["keys"][j] ELSE None]]

\* the labels of `key` that are not columns yet, in key order, each once
RECURSIVE NewLabels(_, _)
NewLabels(columns, key) ==
    IF key = <<>> THEN <<>>
    ELSE IF Head(key) \in SeqToSet(columns) THEN NewLabels(columns, Tail(key))
    ELSE <<Head(key)>> \o NewLabels(Append(columns, Head(key)), Tail(key))

\* a column assignment that puts new labels before the existing columns
SetItemInFront(df, key, frame) ==
    LET cols == NewLabels(df.columns, key) \o df.columns
        pos(c) == Max({j \in 1..Len(key) : key[j] = c})
    IN  [columns |-> cols,
         rows |-> [i \in 1..Len(df.rows) |->
                     [c \in SeqToSet(cols) |->
                         IF c \in SeqToSet(key) THEN frame[i][pos(c)]
                         ELSE df.rows[i][c]]]]

\* df[key] = frame, for a frame with len(key) columns: column key[j] is set
\* from the frame's j-th column; a label that is no column yet is appended
\* after the existing columns; of a repeated label the last one wins.
SetItem(df, key, frame) ==
    LET cols == df.columns \o NewLabels(df.columns, key)
        pos(c) == Max({j \in 1..Len(key) : key[j] = c})
    IN  [columns |-> cols,
         rows |-> [i \in 1..Len(df.rows) |->
                     [c \in SeqToSet(cols) |->
                         IF c \in SeqToSet(key) THEN frame[i][pos(c)]
                         ELSE df.rows[i][c]]]]

RECURSIVE Without(_, _)
Without(s, x) ==
    IF s = <<>> THEN <<>>
    ELSE IF Head(s) = x THEN Without(Tail(s), x)
    ELSE <<Head(s)>> \o Without(Tail(s), x)

\* df.drop(columns=[col], inplace=True)
Drop(df, col) ==
    [columns |-> Without(df.columns, col),
     rows |-> [i \in 1..Len(df.rows) |->
                 [c \in SeqToSet(df.columns) \ {col} |-> df.rows[i][c]]]]

-----------------------------------------------------------------------------
(* SearchConsoleAPI *)

\* _authenticate's except clauses: FileNotFoundError, then Exception
AuthenticateCatches(outcome) == outcome \in {"FileNotFoundError", "Exception"}

\* _authenticate: the handle, None when the exception raised by
\* from_service_account_file / build is caught, "raise" when it is not
Authenticate(outcome) ==
    IF outcome = "ok" THEN "service"
    ELSE IF AuthenticateCatches(outcome) THEN "None"
    ELSE "raise"

\* a main without the early return
ExitsEarlyNever(svc) == FALSE

\* line 161: if not sc_api.service
ExitsEarly(svc) == svc = "None"

\* an execute_request that appends `date` without looking
WithDateAlways(dimensions) == Append(dimensions, "date")

\* an execute_request that never adds `date`
WithDateNever(dimensions) == dimensions

\* lines 62-63: the list object after `if 'date' not in dimensions: append`
WithDate(dimensions) ==
    IF "date" \in SeqToSet(dimensions) THEN dimensions ELSE Append(dimensions, "date")

\* lines 65-71
RequestBody(start_date, end_date, dimensions, row_limit) ==
    [startDate |-> start_date, endDate |-> end_date, dimensions |-> dimensions,
     rowLimit |-> row_limit, startRow |-> 0]

\* an execute_request that sends the request again after an HttpError
SentWithRetry(property_uri, body, response) ==
    IF response.kind = "HttpError"
    THEN <<[siteUrl |-> property_uri, body |-> body], [siteUrl |-> property_uri, body |-> body]>>
    ELSE <<[siteUrl |-> property_uri, body |-> body]>>

\* lines 73-76: the requests one call sends, whatever .execute() does
Sent(property_uri, body, response) == <<[siteUrl |-> property_uri, body |-> body]>>

\* lines 82-89: the frame built from a response that has 'rows'; ok is
\* FALSE when building it raises (KeyError for df['keys'] on a frame without
\* that column, ValueError "Columns must be same length as key").
FlatTable(response, dimensions) ==
    LET df == DataFrameFromRecords(response.fields, response.rows)
    IN  IF "keys" \notin SeqToSet(df.columns) THEN [ok |-> FALSE]
        ELSE IF KeysFrameWidth(df) # Len(dimensions) THEN [ok |-> FALSE]
        ELSE [ok |-> TRUE, df |-> Drop(SetItem(df, dimensions, KeysFrame(df)), "keys")]

\* execute_request.  `response` is what .execute() does for the request:
\* raises HttpError, raises another Exception, or returns a dict.
\* Result: the returned frame, the caller's list object after the call and
\* the requests sent.
ExecuteRequest(svc, property_uri, start_date, end_date, dimensions, row_limit, response) ==
    IF svc = "None"
    THEN [df |-> EmptyDataFrame, dimensions |-> dimensions, sent |-> <<>>]
    ELSE LET dims == WithDate(dimensions)
             body == RequestBody(start_date, end_date, dims, row_limit)
             ft   == FlatTable(response, dims)
             df   == IF response.kind \in {"HttpError", "Exception"} THEN EmptyDataFrame
                     ELSE IF ~response.hasRows THEN EmptyDataFrame
                     ELSE IF ~ft.ok THEN EmptyDataFrame
                     ELSE ft.df
         IN  [df |-> df, dimensions |-> dims,
              sent |-> Sent(property_uri, body, response)]

-----------------------------------------------------------------------------
(* save_daily_csvs *)

\* df.groupby('date'): the distinct values of the column, None (NaN) left
\* out, in sorted order
GroupKeys(df) == {df.rows[i]["date"] : i \in 1..Len(df.rows)} \ {None}

RECURSIVE Sorted(_)
Sorted(S) ==
    IF S = {} THEN <<>>
    ELSE LET m == CHOOSE x \in S : \A y \in S \ {x} : StrLess(x, y)
         IN  <<m>> \o Sorted(S \ {m})

RECURSIVE SelectRows(_, _)
SelectRows(rows, date_str) ==
    IF rows = <<>> THEN <<>>
    ELSE IF Head(rows)["date"] = date_str
         THEN <<Head(rows)>> \o SelectRows(Tail(rows), date_str)
         ELSE SelectRows(Tail(rows), date_str)

\* daily_df of a group: the rows of that date, in their order, all columns
DailyDf(df, date_str) == [columns |-> df.columns, rows |-> SelectRows(df.rows, date_str)]

\* os.path.join(base_dir, report_type)
DirPath(base_dir, report_type) == <<base_dir, report_type>>

\* f"{report_type}_{date_obj.strftime('%Y-%m-%d')}.csv"
FileName(report_type, date_obj) == <<report_type, Strftime(date_obj)>>

\* os.path.join(dir_path, file_name)
FilePath(base_dir, report_type, date_obj) ==
    <<base_dir, report_type, FileName(report_type, date_obj)>>

\* os.makedirs(dir_path, exist_ok=True)
MakeDirs(ds, base_dir, report_type) == ds \cup {<<base_dir>>, DirPath(base_dir, report_type)}

\* daily_df.to_csv(file_path, index=False): the header row and the rows
WriteCsv(fl, path, daily_df) ==
    [p \in DOMAIN fl \cup {path} |-> IF p = path THEN daily_df ELSE fl[p]]

\* lines 113-128, one pass of the loop body.  st is the file system and the
\* log of the files written; io[date_str] says which call of the pass, if
\* any, raises an OSError.
SaveGroup(st, df, report_type, base_dir, date_str, io) ==
    LET date_obj == Strptime(date_str)
    IN  IF ~date_obj.ok THEN st                                 \* except ValueError
        ELSE IF io[date_str] = "makedirs" THEN st               \* except Exception
        ELSE IF io[date_str] = "to_csv"
             THEN [st EXCEPT !.dirs = MakeDirs(st.dirs, base_dir, report_type)]
        ELSE [dirs   |-> MakeDirs(st.dirs, base_dir, report_type),
              files  |-> WriteCsv(st.files, FilePath(base_dir, report_type, date_obj),
                                  DailyDf(df, date_str)),
              writes |-> Append(st.writes,
                                [group |-> date_str,
                                 path  |-> FilePath(base_dir, report_type, date_obj),
                                 rows  |-> SelectRows(df.rows, date_str)])]

\* a loop whose try encloses the for: the first failing group ends it
RECURSIVE SaveGroupsUntilFailure(_, _, _, _, _, _)
SaveGroupsUntilFailure(st, df, report_type, base_dir, keys, io) ==
    IF keys = <<>> THEN st
    ELSE IF ~Strptime(Head(keys)).ok THEN st
    ELSE IF io[Head(keys)] # "ok" THEN SaveGroup(st, df, report_type, base_dir, Head(keys), io)
    ELSE SaveGroupsUntilFailure(SaveGroup(st, df, report_type, base_dir, Head(keys), io),
                                df, report_type, base_dir, Tail(keys), io)

RECURSIVE SaveGroups(_, _, _, _, _, _)
SaveGroups(st, df, report_type, base_dir, keys, io) ==
    IF keys = <<>> THEN st
    ELSE SaveGroups(SaveGroup(st, df, report_type, base_dir, Head(keys), io),
                    df, report_type, base_dir, Tail(keys), io)

\* a save_daily_csvs that creates the directory before it looks at the columns
SaveDailyCsvsDirFirst(df, report_type, base_dir, ds, fl, io) ==
    IF "date" \notin SeqToSet(df.columns)
    THEN [dirs |-> MakeDirs(ds, base_dir, report_type), files |-> fl, writes |-> <<>>]
    ELSE SaveGroups([dirs |-> ds, files |-> fl, writes |-> <<>>],
                    df, report_type, base_dir, Sorted(GroupKeys(df)), io)

\* save_daily_csvs(df, report_type, base_dir) on the file system (ds, fl)
SaveDailyCsvs(df, report_type, base_dir, ds, fl, io) ==
    IF "date" \notin SeqToSet(df.columns)
    THEN [dirs |-> ds, files |-> fl, writes |-> <<>>]
    ELSE SaveGroups([dirs |-> ds, files |-> fl, writes |-> <<>>],
                    df, report_type, base_dir, Sorted(GroupKeys(df)), io)

-----------------------------------------------------------------------------
(* main: the report definitions and the command line *)

\* reports_to_run (a dict: iteration is in insertion order)
ReportOrder == <<"page_query_country_device", "search_appearance", "query_page",
                 "page", "query", "country", "device">>

ReportsToRun ==
    [page_query_country_device |-> <<"page", "query", "country", "device">>,
     search_appearance         |-> <<"searchAppearance">>,
     query_page                |-> <<"query", "page">>,
     page                      |-> <<"page">>,
     query                     |-> <<"query">>,
     country                   |-> <<"country">>,
     device                    |-> <<"device">>]

\* --limit default
DefaultLimit == 25000

\* a main that hands execute_request the list stored in reports_to_run
PassesOriginal == FALSE

\* dimensions=dimensions_list.copy(): TRUE when execute_request is handed a
\* copy, FALSE when it is handed the list object stored in reports_to_run
PassesCopy == TRUE

-----------------------------------------------------------------------------
(* The inputs the model draws from *)

\* most rows in a response / in a table handed to save_daily_csvs
MaxRows == 2

MaxTableRows == 3

MainRows == 1

\* sequences over S of length 0..n
SeqsUpTo(S, n) == UNION {[1..m -> S] : m \in 0..n}

D1      == <<"2", "0", "2", "4", "-", "0", "1", "-", "0", "1">>
D2      == <<"2", "0", "2", "4", "-", "0", "1", "-", "0", "2">>
D1Short == <<"2", "0", "2", "4", "-", "1", "-", "1">>
DFeb30  == <<"2", "0", "2", "4", "-", "0", "2", "-", "3", "0">>
DBad    == <<"b", "a", "d">>

\* a key list that matches the dimension list, one shorter, one longer
AlignedKeys(dims, dv) ==
    [j \in 1..Len(dims) |-> IF dims[j] = "date" THEN dv ELSE <<"a">>]

KeyLists(dims, dates) ==
    {AlignedKeys(dims, dv) : dv \in dates}
        \cup {SubSeq(AlignedKeys(dims, D1), 1, Len(dims) - 1),
              Append(AlignedKeys(dims, D1), <<"b">>)}

\* the i-th row dict of a response, with the given fields
ResponseRow(fields, keys, i) ==
    [f \in SeqToSet(fields) |->
        IF f = "keys" THEN keys
        ELSE IF f = "clicks" THEN i
        ELSE IF f = "impressions" THEN 10 * i
        ELSE IF f = "ctr" THEN 1
        ELSE i]

KeysFirst == <<"keys", "clicks", "impressions", "ctr", "position">>
KeysLast  == <<"clicks", "impressions", "ctr", "position", "keys">>
NoKeys    == <<"clicks", "impressions", "ctr", "position">>

\* what .execute() can do for a request with these dimensions: raise
\* HttpError, raise another Exception, return a dict without 'rows', or a
\* dict with at most n rows
Responses(dims, dates, fieldOrders, n, distinct) ==
    {[kind |-> "HttpError"], [kind |-> "Exception"],
     [kind |-> "ok", hasRows |-> FALSE]}
    \cup
    {[kind |-> "ok", hasRows |-> TRUE, fields |-> fo,
      rows |-> [i \in 1..Len(ks) |-> ResponseRow(fo, ks[i], IF distinct THEN i ELSE 1)]] :
        fo \in fieldOrders, ks \in SeqsUpTo(KeyLists(dims, dates), n)}

\* what .execute() did: raised HttpError or another Exception, or returned a
\* dict without or with 'rows'
Outcome(response) ==
    IF response.kind # "ok" THEN response.kind
    ELSE IF response.hasRows THEN "rows" ELSE "no rows"

\* a report definition, with `date` put in at any one place or not at all
RECURSIVE InsertAt(_, _, _)
InsertAt(s, k, x) ==
    IF k = 0 THEN <<x>> \o s ELSE <<Head(s)>> \o InsertAt(Tail(s), k - 1, x)

CallerDimensions ==
    {ReportsToRun[n] : n \in DOMAIN ReportsToRun}
    \cup UNION {{InsertAt(ReportsToRun[n], k, "date") : k \in 0..Len(ReportsToRun[n])} :
                   n \in DOMAIN ReportsToRun}

\* which call of a group's pass raises an OSError, for the groups whose date parses
IoOutcomes == {"ok", "makedirs", "to_csv"}

Parseable(S) == {k \in S : Strptime(k).ok}

IoChoices(df) ==
    IF "date" \in SeqToSet(df.columns)
    THEN [Parseable(GroupKeys(df)) -> IoOutcomes]
    ELSE {<<>>}

\* every group's pass succeeds, or every group's os.makedirs raises
IoUniform(df) ==
    IF "date" \in SeqToSet(df.columns)
    THEN {[k \in Parseable(GroupKeys(df)) |-> o] : o \in {"ok", "makedirs"}}
    ELSE {<<>>}

\* the tables handed to save_daily_csvs
DateColumns   == <<"clicks", "impressions", "ctr", "position", "query", "date">>
NoDateColumns == <<"clicks", "impressions", "ctr", "position", "query">>

TableDates == {D1, D2, D1Short, DFeb30, DBad, None}

TableRow(cols, dv, i) ==
    [c \in SeqToSet(cols) |->
        IF c = "date" THEN dv
        ELSE IF c = "query" THEN <<"a">>
        ELSE IF c = "impressions" THEN 10 * i
        ELSE IF c = "ctr" THEN 1
        ELSE i]

Tables ==
    {[columns |-> DateColumns,
      rows |-> [i \in 1..Len(ds) |-> TableRow(DateColumns, ds[i], i)]] :
        ds \in SeqsUpTo(TableDates, MaxTableRows)}
    \cup
    {[columns |-> NoDateColumns,
      rows |-> [i \in 1..m |-> TableRow(NoDateColumns, None, i)]] : m \in 0..MaxTableRows}

\* file systems save_daily_csvs starts from: nothing there, or the report's
\* directory with a file of an earlier run in it
NoFiles == [p \in {} |-> EmptyDataFrame]

OldFile == [columns |-> DateColumns, rows |-> <<TableRow(DateColumns, D1, 0)>>]

FileSystems ==
    {[dirs |-> {}, files |-> NoFiles],
     [dirs |-> {<<"out">>, <<"out", "query">>},
      files |-> [p \in {<<"out", "query", <<"query", D1>>>>} |-> OldFile]]}

ArgSets ==
    {[property |-> "sc-domain:example.com", sa_file |-> "key.json",
      start |-> "2024-01-01", end |-> "2024-01-02",
      output_dir |-> "search_console_reports", limit |-> l] :
        l \in {MainRows, DefaultLimit}}

DefaultArgs == CHOOSE a \in ArgSets : a.limit = DefaultLimit

Min(a, b) == IF a < b THEN a ELSE b

-----------------------------------------------------------------------------
(* Spec: a run of main *)

Init ==
    /\ pc = "start"
    /\ args \in ArgSets
    /\ service = "unset"
    /\ idx = 1
    /\ reports_to_run = ReportsToRun
    /\ requests = <<>>
    /\ dirs = {}
    /\ files = NoFiles
    /\ last = [op |-> "none"]
    /\ raised = FALSE

\* line 159: sc_api = SearchConsoleAPI(args.sa_file, SCOPES)
InitializeClient ==
    /\ pc = "start"
    /\ \E outcome \in {"ok", "FileNotFoundError", "Exception"} :
         /\ last' = [op |-> "authenticate", outcome |-> outcome]
         /\ IF Authenticate(outcome) = "raise"
            THEN /\ raised' = TRUE
                 /\ pc' = "done"
                 /\ UNCHANGED service
            ELSE /\ service' = Authenticate(outcome)
                 /\ pc' = "check"
                 /\ UNCHANGED raised
    /\ UNCHANGED <<args, idx, reports_to_run, requests, dirs, files>>

\* lines 161-163: if not sc_api.service: return
CheckService ==
    /\ pc = "check"
    /\ pc' = IF ExitsEarly(service) THEN "done" ELSE "loop"
    /\ last' = [op |-> "check"]
    /\ UNCHANGED <<args, service, idx, reports_to_run, requests, dirs, files, raised>>

\* lines 166-182: one pass of the loop over reports_to_run.items()
RunReport ==
    /\ pc = "loop"
    /\ idx <= Len(ReportOrder)
    /\ LET report_name == ReportOrder[idx]
           dimensions_list == reports_to_run[report_name]
       IN  \E response \in Responses(WithDate(dimensions_list), {D1}, {KeysFirst},
                                     Min(args.limit, MainRows), FALSE) :
             LET r == ExecuteRequest(service, args.property, args.start, args.end,
                                     dimensions_list, args.limit, response)
             IN  \E io \in IoUniform(r.df) :
                   LET w == SaveDailyCsvs(r.df, report_name, args.output_dir,
                                          dirs, files, io)
                   IN  /\ requests' = requests \o r.sent
                       /\ reports_to_run' =
                            IF PassesCopy THEN reports_to_run
                            ELSE [reports_to_run EXCEPT ![report_name] = r.dimensions]
                       /\ IF ~IsEmpty(r.df)
                          THEN /\ dirs' = w.dirs
                               /\ files' = w.files
                          ELSE UNCHANGED <<dirs, files>>
                       /\ last' = [op |-> "report", name |-> report_name,
                                   outcome |-> Outcome(response), df |-> r.df,
                                   saved |-> ~IsEmpty(r.df)]
    /\ idx' = idx + 1
    /\ UNCHANGED <<pc, args, service, raised>>

\* the loop is exhausted: main returns
Finish ==
    /\ pc = "loop"
    /\ idx > Len(ReportOrder)
    /\ pc' = "done"
    /\ last' = [op |-> "return"]
    /\ UNCHANGED <<args, service, idx, reports_to_run, requests, dirs, files, raised>>

Next == InitializeClient \/ CheckService \/ RunReport \/ Finish

Spec == Init /\ [][Next]_vars

-----------------------------------------------------------------------------
(* SpecQuery: one call of execute_request, on any of the drawn inputs *)

InitQuery ==
    /\ pc = "call"
    /\ args = DefaultArgs
    /\ service \in {"None", "service"}
    /\ idx = 0
    /\ reports_to_run = ReportsToRun
    /\ requests = <<>>
    /\ dirs = {}
    /\ files = NoFiles
    /\ raised = FALSE
    /\ \E d \in CallerDimensions :
         \E response \in Responses(WithDate(d), {D1, D2}, {KeysFirst, KeysLast, NoKeys},
                                   MaxRows, TRUE) :
            last = [op |-> "execute_request", dimensions |-> d, response |-> response]

CallExecuteRequest ==
    /\ pc = "call"
    /\ last.op = "execute_request"
    /\ LET r == ExecuteRequest(service, args.property, args.start, args.end,
                               last.dimensions, args.limit, last.response)
       IN  /\ requests' = requests \o r.sent
           /\ last' = [op |-> "execute_request", dimensions |-> last.dimensions,
                       response |-> last.response, after |-> r.dimensions, df |-> r.df]
    /\ pc' = "returned"
    /\ UNCHANGED <<args, service, idx, reports_to_run, dirs, files, raised>>

NextQuery == CallExecuteRequest

SpecQuery == InitQuery /\ [][NextQuery]_vars

-----------------------------------------------------------------------------
(* SpecWrite: one call of save_daily_csvs, on any of the drawn inputs *)

InitWrite ==
    /\ pc = "call"
    /\ args = DefaultArgs
    /\ service = "unset"
    /\ idx = 0
    /\ reports_to_run = ReportsToRun
    /\ requests = <<>>
    /\ \E fs \in FileSystems : dirs = fs.dirs /\ files = fs.files
    /\ raised = FALSE
    /\ \E df \in Tables :
         \E io \in IoChoices(df) :
            last = [op |-> "save_daily_csvs", df |-> df, report_type |-> "query",
                    base_dir |-> "out", io |-> io]

CallSaveDailyCsvs ==
    /\ pc = "call"
    /\ last.op = "save_daily_csvs"
    /\ LET w == SaveDailyCsvs(last.df, last.report_type, last.base_dir, dirs, files, last.io)
       IN  /\ dirs' = w.dirs
           /\ files' = w.files
           /\ last' = [op |-> "save_daily_csvs", df |-> last.df,
                       report_type |-> last.report_type, base_dir |-> last.base_dir,
                       io |-> last.io, before |-> [dirs |-> dirs, files |-> files],
                       writes |-> w.writes]
    /\ pc' = "returned"
    /\ UNCHANGED <<args, service, idx, reports_to_run, requests, raised>>

NextWrite == CallSaveDailyCsvs

SpecWrite == InitWrite /\ [][NextWrite]_vars

-----------------------------------------------------------------------------
(* SpecMainQuery: a run of main, or one call of execute_request *)

SpecMainQuery == (Init \/ InitQuery) /\ [][Next \/ NextQuery]_vars

-----------------------------------------------------------------------------
(* The claims *)

Metrics == <<"clicks", "impressions", "ctr", "position">>

Count(s, x) == Cardinality({i \in 1..Len(s) : s[i] = x})

\* C1: when authentication fails (the handle is None) the run ends before
\* the loop: no request is sent, no directory and no file is created, and
\* no exception reaches the caller of the constructor.
C1_AuthFailureEndsRun ==
    /\ ~raised
    /\ service = "None" =>
         /\ pc \in {"check", "done"}
         /\ idx = 1
         /\ requests = <<>>
         /\ dirs = {}
         /\ files = NoFiles

C1_Witness == pc = "done" /\ service = "None" /\ last.op = "check"

\* C2: with a handle, the i-th request sent is the one of the i-th report
\* definition, over args.start..args.end with startRow 0; one request per
\* pass of the loop whatever the request's outcome; 7 when main returns.
C2_OneRequestPerReport ==
    service = "service" =>
        /\ idx <= 8
        /\ Len(requests) = idx - 1
        /\ \A i \in 1..Len(requests) :
             requests[i] =
                [siteUrl |-> args.property,
                 body |-> [startDate |-> args.start, endDate |-> args.end,
                           dimensions |-> Append(ReportsToRun[ReportOrder[i]], "date"),
                           rowLimit |-> args.limit, startRow |-> 0]]
        /\ pc = "done" => Len(requests) = 7
        /\ (pc = "loop" /\ idx = 8) => ENABLED Finish

C2_Witness == pc = "done" /\ service = "service" /\ Len(requests) = 7

\* C3: the dimension list of the request sent holds `date` exactly once; a
\* caller's list without `date` gets it appended, one with `date` is sent as
\* it is.
C3_DateExactlyOnce ==
    (pc = "returned" /\ last.op = "execute_request" /\ requests # <<>>) =>
        LET sent == requests[1].body.dimensions
        IN  /\ Len(requests) = 1
            /\ Count(sent, "date") = 1
            /\ "date" \notin SeqToSet(last.dimensions) =>
                   sent = last.dimensions \o <<"date">>
            /\ "date" \in SeqToSet(last.dimensions) => sent = last.dimensions

C3_Witness ==
    /\ pc = "returned" /\ last.op = "execute_request" /\ requests # <<>>
    /\ Len(last.dimensions) > 1
    /\ last.dimensions[1] = "date"

\* C4: a non-empty frame returned by execute_request has a `date` column and
\* a column for each dimension of the request, and main hands
\* save_daily_csvs only frames with a `date` column.
C4_DateColumn ==
    /\ (pc = "returned" /\ last.op = "execute_request" /\ Len(last.df.rows) > 0) =>
          /\ "date" \in SeqToSet(last.df.columns)
          /\ requests # <<>>
          /\ \A d \in SeqToSet(requests[1].body.dimensions) :
                d \in SeqToSet(last.df.columns)
    /\ (last.op = "report" /\ last.saved) => "date" \in SeqToSet(last.df.columns)

\* a non-empty frame from a response whose key lists differ in length
C4_Witness ==
    /\ pc = "returned" /\ last.op = "execute_request" /\ Len(last.df.rows) > 1
    /\ Len(last.response.rows[1]["keys"]) # Len(last.response.rows[2]["keys"])

\* C5: a request that fails, a response without rows and a call without a
\* handle give an empty frame and raise nothing; main then does not call
\* save_daily_csvs and the file system stays as it is; each pass sends its
\* request and writes what save_daily_csvs writes for its frame alone, next
\* to the files of the earlier reports.
C5_Step ==
    /\ (pc = "call" /\ last.op = "execute_request") =>
          /\ pc' = "returned" /\ ~raised'
          /\ (service = "None" \/ Outcome(last.response) # "rows") =>
                last'.df = EmptyDataFrame
          /\ (service = "None") => requests' = <<>>
    /\ (pc = "loop" /\ idx <= 7) =>
          /\ pc' = "loop" /\ idx' = idx + 1 /\ ~raised'
          /\ last'.name = ReportOrder[idx]
          /\ Len(requests') = Len(requests) + 1
          /\ last'.outcome # "rows" => last'.df = EmptyDataFrame
          /\ Len(last'.df.rows) = 0 =>
                ~last'.saved /\ dirs' = dirs /\ files' = files
          /\ Len(last'.df.rows) > 0 =>
                /\ last'.saved
                /\ \E io \in IoUniform(last'.df) :
                     LET w == SaveDailyCsvs(last'.df, ReportOrder[idx], args.output_dir,
                                            {}, NoFiles, io)
                     IN  /\ DOMAIN files' = DOMAIN files \cup DOMAIN w.files
                         /\ \A p \in DOMAIN files : files'[p] = files[p]
                         /\ \A p \in DOMAIN w.files : files'[p] = w.files[p]
                         /\ dirs' = dirs \cup w.dirs

C5_FailureIsLocal == [][C5_Step]_vars

\* the last report wrote its files after every earlier one left none
C5_Witness ==
    /\ pc = "loop" /\ idx = 8 /\ last.op = "report" /\ last.saved
    /\ files # NoFiles
    /\ \A p \in DOMAIN files : p[2] = "device"

\* the tables C6 speaks of: a `date` column whose values all parse, and no
\* OSError during the call
C6_Applies ==
    /\ pc = "returned" /\ last.op = "save_daily_csvs"
    /\ "date" \in SeqToSet(last.df.columns)
    /\ \A i \in 1..Len(last.df.rows) : Strptime(last.df.rows[i]["date"]).ok
    /\ \A k \in DOMAIN last.io : last.io[k] = "ok"

C6_Dates == {last.df.rows[i]["date"] : i \in 1..Len(last.df.rows)}

C6_Written == {last.writes[j].path : j \in 1..Len(last.writes)}

\* C6: for a table whose date values all parse, save_daily_csvs leaves one
\* file per distinct date value, named by report type and date, holding
\* exactly the rows of that date: as many files as distinct date values, and
\* every source row in exactly one file.
C6_OneFilePerDate ==
    C6_Applies =>
        /\ Cardinality(C6_Written) = Cardinality(C6_Dates)
        /\ \A d \in C6_Dates :
             LET p == <<last.base_dir, last.report_type,
                        <<last.report_type, Strftime(Strptime(d))>>>>
             IN  /\ p \in DOMAIN files
                 /\ files[p].rows = SelectRows(last.df.rows, d)
        /\ \A i \in 1..Len(last.df.rows) :
             Cardinality({p \in C6_Written :
                            \E j \in 1..Len(files[p].rows) :
                               files[p].rows[j] = last.df.rows[i]}) = 1

\* C6 restricted to date values in the zero-padded form strftime gives back
C6_CanonicalDates ==
    (C6_Applies /\ \A d \in C6_Dates : Strftime(Strptime(d)) = d) => C6_OneFilePerDate

\* the groups of the call and whether the pass of one runs to the end
C7_Groups == {last.df.rows[i]["date"] : i \in 1..Len(last.df.rows)} \ {None}

C7_CanWrite(k) == Strptime(k).ok /\ last.io[k] = "ok"

C7_Path(k) ==
    <<last.base_dir, last.report_type, <<last.report_type, Strftime(Strptime(k))>>>>

C7_RowsOf(k) ==
    [columns |-> last.df.columns,
     rows |-> SelectSeq(last.df.rows, LAMBDA r : r["date"] = k)]

C8_NoDateNoEffect ==
    (pc = "returned" /\ last.op = "save_daily_csvs"
        /\ "date" \notin SeqToSet(last.df.columns)) =>
        /\ dirs = last.before.dirs
        /\ files = last.before.files
        /\ last.writes = <<>>
        /\ ~raised

C8_Witness ==
    /\ pc = "returned" /\ last.op = "save_daily_csvs"
    /\ "date" \notin SeqToSet(last.df.columns)
    /\ Len(last.df.rows) > 0
    /\ last.before.dirs = {}

\* C9 as claimed: the columns of the frame built from a response, and the
\* header of every file main writes, are the request's dimensions followed
\* by the metrics.
C9_DimensionsFirst ==
    /\ (pc = "returned" /\ last.op = "execute_request" /\ Len(last.df.rows) > 0) =>
          last.df.columns = requests[1].body.dimensions \o Metrics
    /\ (pc \in {"loop", "done"}) =>
          \A p \in DOMAIN files :
             files[p].columns = Append(ReportsToRun[p[2]], "date") \o Metrics

\* C9, amended: the columns of the frame built from a response are the
\* response rows' fields other than `keys` (the metrics), in the response's
\* order, followed by the request's dimensions in request order; the header
\* of every file main writes is the metrics followed by the report's
\* dimensions and `date`.
C9_MetricsFirst ==
    /\ (pc = "returned" /\ last.op = "execute_request" /\ Len(last.df.rows) > 0) =>
          last.df.columns =
             SelectSeq(last.response.fields, LAMBDA f : f # "keys")
                \o requests[1].body.dimensions
    /\ (pc \in {"loop", "done"}) =>
          \A p \in DOMAIN files :
             files[p].columns = Metrics \o Append(ReportsToRun[p[2]], "date")

C9_Witness == pc = "done" /\ Cardinality(DOMAIN files) > 1

\* C10: the report definitions stay as they were defined through the whole
\* run, and the request of a report names that report's dimensions and
\* `date` only.
C10_DefinitionsUnchanged ==
    /\ reports_to_run = ReportsToRun
    /\ (pc \in {"loop", "done"}) =>
          \A i \in 1..Len(requests) :
             SeqToSet(requests[i].body.dimensions) =
                SeqToSet(ReportsToRun[ReportOrder[i]]) \cup {"date"}

C10_Witness == pc = "loop" /\ idx > 3 /\ Len(requests) = idx - 1

====
